---- MODULE Spec2Model ----
(***************************************************************************)
(* The recipe browsing state machine of the recipe explorer front end:     *)
(* the shared state container (AppProvider), the home view (Home) with its *)
(* effects, the search bar, the favorite toggle and the list requests.     *)
(*                                                                         *)
(* Rendering follows React 18: the state updates of one handler, effect    *)
(* pass or await-continuation are batched; a component's effects run after *)
(* the commit, in definition order, when one of their dependencies changed *)
(* by identity (Object.is).  Functions declared in a component body        *)
(* without useCallback (resetPagination, loadNextPage) are new on each     *)
(* render of that component.  A commit and its effects, the action Render, *)
(* happen before the next event is handled.                                *)
(***************************************************************************)
EXTENDS Integers, Sequences, FiniteSets, TLC

\* ------------------------------------------------------------------ bounds
MaxPageLen == 2
MaxPage == 3

\* --------------------------------------------------------------- constants
Null == "<null>"
PageSize == 12
DefaultError == "Failed to load recipes"
MockRecipes == <<"1", "2", "3">>

SearchTexts == {"", "curry"}
Cuisines == {"", "thai"}
Diets == {"", "vegan"}
MaxTimes == {"", "45"}
ServerIds == {"1", "9"}
ErrorMessages == {"", "API request failed: 500"}

Filters == [cuisine : Cuisines, diet : Diets, maxTime : MaxTimes]
DefaultFilters == [cuisine |-> "", diet |-> "", maxTime |-> ""]
FilterPatches ==
    {[cuisine |-> c] : c \in Cuisines} \cup {[diet |-> d] : d \in Diets}
        \cup {[maxTime |-> t] : t \in MaxTimes}

RECURSIVE SeqsUpTo(_, _)
SeqsUpTo(S, n) ==
    IF n = 0 THEN {<<>>}
    ELSE LET shorter == SeqsUpTo(S, n - 1)
         IN  shorter \cup {Append(s, x) : s \in shorter, x \in S}

Pages == SeqsUpTo(ServerIds, MaxPageLen)
FeaturedLists == {<<>>, <<"1">>}

VARIABLES
    searchQuery, filters, favorites,      \* AppProvider state
    currentPage, hasMore, isLoadingMore,  \* AppProvider pagination state
    recipes, loading, error, loadingRef,  \* Home state and ref
    featuredRecipes, featuredPending,     \* Home featured list and its request
    inflight,                             \* list requests awaiting a response
    localQuery, timer,                    \* SearchBar state and debounce timer
    mounted,                              \* the first commit has happened
    provDirty,                            \* AppProvider state changed since the last commit
    queryDirty,                           \* searchQuery or filters changed since the last commit
    renderedPage,                         \* currentPage as of the last commit
    lastEvent, renders, lastResult,       \* history: last event, commits since, last result
    stored,                               \* localStorage: the text under recipe_favorites
    favDirty,                             \* favorites changed (by identity) since the last commit
    raised,                               \* an exception escaped a container operation or effect
    writeFailed,                          \* the last localStorage.setItem threw
    favLast,                              \* history: the last favorites operation
    favType,                              \* what kind of value the favorites state holds
    input, output,                        \* a function under test: its arguments, its result
    timeouts,                             \* SearchBar on a clock: the pending setTimeout calls
    sinceKey                              \* history: ticks since the last keystroke

ctxVars == <<searchQuery, filters, favorites, currentPage, hasMore, isLoadingMore>>
homeVars == <<recipes, loading, error, loadingRef, inflight>>
featVars == <<featuredRecipes, featuredPending>>
barVars == <<localQuery, timer>>
renderVars == <<mounted, provDirty, queryDirty, renderedPage>>
histVars == <<lastEvent, renders, lastResult>>
storeVars == <<stored, favDirty, raised, writeFailed, favLast, favType>>
fnVars == <<input, output>>
clockVars == <<timeouts, sinceKey>>
vars == <<ctxVars, homeVars, featVars, barVars, renderVars, histVars, storeVars, fnVars,
          clockVars>>

NoResult == [recipes |-> <<>>, hasMore |-> FALSE, none |-> TRUE]

\* ------------------------------------------------- the browsing state
\* The part of the state the list operations read and write, as one record.
Snap ==
    [searchQuery |-> searchQuery, filters |-> filters,
     currentPage |-> currentPage, hasMore |-> hasMore,
     isLoadingMore |-> isLoadingMore,
     recipes |-> recipes, loading |-> loading, error |-> error,
     loadingRef |-> loadingRef, inflight |-> inflight]

Commit(s) ==
    /\ searchQuery' = s.searchQuery
    /\ filters' = s.filters
    /\ currentPage' = s.currentPage
    /\ hasMore' = s.hasMore
    /\ isLoadingMore' = s.isLoadingMore
    /\ recipes' = s.recipes
    /\ loading' = s.loading
    /\ error' = s.error
    /\ loadingRef' = s.loadingRef
    /\ inflight' = s.inflight

Cursor(s) == <<s.currentPage, s.hasMore, s.isLoadingMore>>
InitialCursor == <<1, TRUE, FALSE>>

RemoveAt(q, i) == [j \in 1..(Len(q) - 1) |-> IF j < i THEN q[j] ELSE q[j + 1]]

Request(page, append, search, f) ==
    [page |-> page, append |-> append, search |-> search, filters |-> f,
     pageSize |-> PageSize]

\* ------------------------------------------------------- AppProvider
SetSearchQuery(s, q) == [s EXCEPT !.searchQuery = q]

\* Overlay that drops the fields the patch does not name.
OverlayReplaces(f, p) ==
    [k \in DOMAIN f \cup DOMAIN p |-> IF k \in DOMAIN p THEN p[k] ELSE ""]

Overlay(f, p) ==
    [k \in DOMAIN f \cup DOMAIN p |-> IF k \in DOMAIN p THEN p[k] ELSE f[k]]

UpdateFilters(s, p) ==
    [s EXCEPT !.filters = Overlay(@, p), !.currentPage = 1, !.hasMore = TRUE]

ResetFilters(s) ==
    [s EXCEPT !.filters = DefaultFilters, !.currentPage = 1, !.hasMore = TRUE]

\* ResetPagination that leaves currentPage as it is.
ResetPaginationKeepsPage(s) ==
    [s EXCEPT !.hasMore = TRUE, !.isLoadingMore = FALSE]

ResetPagination(s) ==
    [s EXCEPT !.currentPage = 1, !.hasMore = TRUE, !.isLoadingMore = FALSE]

LoadNextPage(s) ==
    IF s.hasMore /\ ~s.isLoadingMore
    THEN [s EXCEPT !.currentPage = @ + 1]
    ELSE s

Includes(list, id) == \E i \in DOMAIN list : list[i] = id

\* AddFavorite without its membership test.
AddFavoriteAlways(favs, id) == Append(favs, id)

AddFavorite(favs, id) == IF ~Includes(favs, id) THEN Append(favs, id) ELSE favs

\* RemoveFavorite that removes the first occurrence only.
RemoveFavoriteFirst(favs, id) ==
    IF ~Includes(favs, id) THEN favs
    ELSE RemoveAt(favs, CHOOSE i \in DOMAIN favs :
                            favs[i] = id /\ \A j \in 1..(i - 1) : favs[j] /= id)

RemoveFavorite(favs, id) == SelectSeq(favs, LAMBDA x : x /= id)

\* ToggleFavorite that never removes.
ToggleFavoriteOnlyAdds(favs, id) == AddFavorite(favs, id)

ToggleFavorite(favs, id) ==
    IF Includes(favs, id) THEN RemoveFavorite(favs, id) ELSE AddFavorite(favs, id)

\* -------------------------------------------------------------- Home
\* LoadRecipes without its in-flight guard.
LoadRecipesUnguarded(s, page, append) ==
    [s EXCEPT
        !.loadingRef = TRUE,
        !.isLoadingMore = IF append THEN TRUE ELSE @,
        !.loading = IF append THEN @ ELSE TRUE,
        !.recipes = IF append THEN @ ELSE <<>>,
        !.error = Null,
        !.inflight = Append(@, Request(page, append, s.searchQuery, s.filters))]

\* loadRecipes up to its await: the guard, the flags, the request.
LoadRecipes(s, page, append) ==
    IF s.loadingRef THEN s
    ELSE [s EXCEPT
            !.loadingRef = TRUE,
            !.isLoadingMore = IF append THEN TRUE ELSE @,
            !.loading = IF append THEN @ ELSE TRUE,
            !.recipes = IF append THEN @ ELSE <<>>,
            !.error = Null,
            !.inflight = Append(@, Request(page, append, s.searchQuery, s.filters))]

\* LoadRecipesResolved that does not take hasMore from the result.
LoadRecipesResolvedKeepsHasMore(s, i, result) ==
    [s EXCEPT
        !.recipes = IF s.inflight[i].append THEN @ \o result.recipes
                    ELSE result.recipes,
        !.loading = FALSE,
        !.isLoadingMore = FALSE,
        !.loadingRef = FALSE,
        !.inflight = RemoveAt(@, i)]

\* loadRecipes after its await, when fetchRecipes returned result.
LoadRecipesResolved(s, i, result) ==
    [s EXCEPT
        !.recipes = IF s.inflight[i].append THEN @ \o result.recipes
                    ELSE result.recipes,
        !.hasMore = result.hasMore,
        !.loading = FALSE,
        !.isLoadingMore = FALSE,
        !.loadingRef = FALSE,
        !.inflight = RemoveAt(@, i)]

ErrorText(message) == IF message = "" THEN DefaultError ELSE message

\* The catch of loadRecipes without the indicator reset of the finally clause.
LoadRecipesRejectedKeepsLoading(s, i, message) ==
    [s EXCEPT
        !.error = ErrorText(message),
        !.recipes = IF s.inflight[i].append THEN @ ELSE MockRecipes,
        !.hasMore = IF s.inflight[i].append THEN @ ELSE FALSE,
        !.loadingRef = FALSE,
        !.inflight = RemoveAt(@, i)]

\* loadRecipes after its await, when fetchRecipes threw an error with message.
LoadRecipesRejected(s, i, message) ==
    [s EXCEPT
        !.error = ErrorText(message),
        !.recipes = IF s.inflight[i].append THEN @ ELSE MockRecipes,
        !.hasMore = IF s.inflight[i].append THEN @ ELSE FALSE,
        !.loading = FALSE,
        !.isLoadingMore = FALSE,
        !.loadingRef = FALSE,
        !.inflight = RemoveAt(@, i)]

\* The reset effect that releases the in-flight guard before it loads.
ResetEffectReleasesGuard(s) ==
    LoadRecipes([ResetPagination(s) EXCEPT !.recipes = <<>>, !.loadingRef = FALSE],
                1, FALSE)

\* The effect on [searchQuery, filters, resetPagination].
ResetEffect(s) == LoadRecipes([ResetPagination(s) EXCEPT !.recipes = <<>>], 1, FALSE)

\* The effect on [currentPage, loadRecipes]; page is currentPage as rendered.
PageEffect(s, page) == IF page > 1 THEN LoadRecipes(s, page, TRUE) ELSE s

\* ObserverCallback that does not look at loading.
ObserverCallbackIgnoresLoading(s) ==
    IF s.hasMore /\ ~s.isLoadingMore THEN LoadNextPage(s) ELSE s

\* The IntersectionObserver callback, the sentinel intersecting.
ObserverCallback(s) ==
    IF s.hasMore /\ ~s.isLoadingMore /\ ~s.loading THEN LoadNextPage(s) ELSE s

HandleLoadMore(s) ==
    IF s.hasMore /\ ~s.isLoadingMore THEN LoadNextPage(s) ELSE s

LoadMoreButtonShown(s) ==
    ~s.loading /\ ~s.isLoadingMore /\ s.hasMore /\ Len(s.recipes) > 0

HasSearchOrFilters(s) ==
    s.searchQuery /= "" \/ s.filters.cuisine /= "" \/ s.filters.diet /= ""
        \/ s.filters.maxTime /= ""

\* What RecipeGrid renders for its props.
RecipeGrid(rs, ld, err) ==
    IF ld THEN [view |-> "loading", cards |-> <<>>, error |-> Null]
    ELSE IF err /= Null THEN [view |-> "error", cards |-> <<>>, error |-> err]
    ELSE IF Len(rs) = 0 THEN [view |-> "empty", cards |-> <<>>, error |-> Null]
    ELSE [view |-> "cards", cards |-> rs, error |-> Null]

Take(q, n) == SubSeq(q, 1, IF Len(q) < n THEN Len(q) ELSE n)

\* The recipe cards on the home view: the featured section and the grid.
VisibleCards ==
    {RecipeGrid(recipes, loading, error).cards[i] :
        i \in DOMAIN RecipeGrid(recipes, loading, error).cards}
    \cup (IF ~HasSearchOrFilters(Snap) /\ Len(featuredRecipes) > 0
          THEN {Take(featuredRecipes, 3)[i] : i \in DOMAIN Take(featuredRecipes, 3)}
          ELSE {})

\* ------------------------------------------------------------ client
\* A response body: a bare array, or an envelope holding some of the fields
\* recipes, data, total, hasMore and page.
Arrays == {[kind |-> "array", items |-> p] : p \in Pages}

Envelopes ==
    {[kind |-> "envelope", recipes |-> p, hasMore |-> h] : p \in Pages, h \in BOOLEAN}
        \cup {[kind |-> "envelope", data |-> <<"9">>, total |-> 1, page |-> 1]}
        \cup {[kind |-> "envelope"]}

Payloads == Arrays \cup Envelopes

Has(payload, field) == field \in DOMAIN payload

\* fetchRecipes' normalisation of a response body, for the requested page.
\* FetchRecipes that reports the requested page for a bare list.
FetchRecipesListKeepsPage(payload, page) ==
    IF payload.kind = "array"
    THEN [recipes |-> payload.items, total |-> Len(payload.items),
          hasMore |-> FALSE, page |-> page]
    ELSE [recipes |-> IF Has(payload, "recipes") THEN payload.recipes
                      ELSE IF Has(payload, "data") THEN payload.data ELSE <<>>,
          total |-> IF Has(payload, "total") THEN payload.total ELSE 0,
          hasMore |-> IF Has(payload, "hasMore") THEN payload.hasMore ELSE FALSE,
          page |-> IF Has(payload, "page") THEN payload.page ELSE page]

FetchRecipes(payload, page) ==
    IF payload.kind = "array"
    THEN [recipes |-> payload.items, total |-> Len(payload.items),
          hasMore |-> FALSE, page |-> 1]
    ELSE [recipes |-> IF Has(payload, "recipes") THEN payload.recipes
                      ELSE IF Has(payload, "data") THEN payload.data
                      ELSE <<>>,
          total |-> IF Has(payload, "total") /\ payload.total /= 0
                    THEN payload.total ELSE 0,
          hasMore |-> IF Has(payload, "hasMore") THEN payload.hasMore ELSE FALSE,
          page |-> IF Has(payload, "page") /\ payload.page /= 0
                   THEN payload.page ELSE page]

\* The fields of the result that loadRecipes reads.
ResultOf(payload, page) ==
    [recipes |-> FetchRecipes(payload, page).recipes,
     hasMore |-> FetchRecipes(payload, page).hasMore,
     none |-> FALSE]

\* ------------------------------------------------------------- Init
Fresh ==
    /\ searchQuery = ""
    /\ filters = DefaultFilters
    /\ favorites = <<>>
    /\ currentPage = 1
    /\ hasMore = TRUE
    /\ isLoadingMore = FALSE
    /\ recipes = <<>>
    /\ loading = TRUE
    /\ error = Null
    /\ loadingRef = FALSE
    /\ featuredRecipes = <<>>
    /\ featuredPending = FALSE
    /\ inflight = <<>>
    /\ localQuery = ""
    /\ timer = FALSE
    /\ mounted = FALSE
    /\ provDirty = FALSE
    /\ queryDirty = FALSE
    /\ renderedPage = 1
    /\ lastEvent = "none"
    /\ renders = 0
    /\ lastResult = NoResult

\* A profile without stored favorites, and no function under test.  The
\* favorites list with its storage is the subject of SpecFav; Spec and SpecApi,
\* the browsing machine, start without a stored item and leave it aside.
NoItem == [present |-> FALSE, text |-> <<>>]
NoOp == [op |-> "none", id |-> "", before |-> <<>>]
NoInput == [fn |-> "none"]
NoOutput == [done |-> FALSE]

StoreIdle ==
    /\ stored = NoItem
    /\ favDirty = FALSE
    /\ raised = FALSE
    /\ writeFailed = FALSE
    /\ favLast = NoOp
    /\ favType = "array"

FnIdle == input = NoInput /\ output = NoOutput

ClockIdle == timeouts = <<>> /\ sinceKey = 0

Init == Fresh /\ StoreIdle /\ FnIdle /\ ClockIdle

\* No commit is pending: the next event can be handled.
Settled == mounted /\ ~provDirty

\* An event handler has run: the history and the render bookkeeping.
\* provChanged: a state of AppProvider changed; queryChanged: searchQuery or
\* filters did.
Handled(name, result, provChanged, queryChanged) ==
    /\ lastEvent' = name
    /\ renders' = 0
    /\ lastResult' = result
    /\ provDirty' = provChanged
    /\ queryDirty' = queryChanged
    /\ UNCHANGED <<mounted, renderedPage, storeVars, fnVars, clockVars>>

\* ---------------------------------------------------------- actions
\* The first commit: the mount effects of SearchBar and Home.
Mount ==
    /\ ~mounted
    /\ mounted' = TRUE
    /\ timer' = TRUE
    /\ featuredPending' = TRUE
    /\ Commit(PageEffect(ResetEffect(Snap), currentPage))
    /\ provDirty' = (Cursor(PageEffect(ResetEffect(Snap), currentPage)) /= Cursor(Snap))
    /\ queryDirty' = FALSE
    /\ renderedPage' = currentPage
    /\ lastEvent' = "mount"
    /\ renders' = 1
    /\ UNCHANGED <<favorites, featuredRecipes, localQuery, lastResult, storeVars, fnVars, clockVars>>

\* A commit after AppProvider's state changed, and Home's effects.
PageEffectDue == currentPage /= renderedPage \/ queryDirty

RenderEffects(s) ==
    IF PageEffectDue THEN PageEffect(ResetEffect(s), s.currentPage) ELSE ResetEffect(s)

Render ==
    /\ mounted
    /\ provDirty
    /\ Commit(RenderEffects(Snap))
    /\ provDirty' = (Cursor(RenderEffects(Snap)) /= Cursor(Snap))
    /\ queryDirty' = FALSE
    /\ renderedPage' = currentPage
    /\ renders' = renders + 1
    /\ UNCHANGED <<favorites, featVars, barVars, mounted, lastEvent, lastResult,
                   storeVars, fnVars, clockVars>>

\* SearchBar.handleChange: the input's text changes, the debounce restarts.
Type(q) ==
    /\ Settled
    /\ q /= localQuery
    /\ localQuery' = q
    /\ timer' = TRUE
    /\ Handled("type", NoResult, FALSE, FALSE)
    /\ UNCHANGED <<ctxVars, homeVars, featVars>>

\* The debounce timer fires: setSearchQuery(localQuery).
TimerFire ==
    /\ Settled
    /\ timer
    /\ timer' = FALSE
    /\ Commit(SetSearchQuery(Snap, localQuery))
    /\ Handled(IF localQuery /= searchQuery THEN "setSearchQuery" ELSE "setSearchQuerySame",
               NoResult, localQuery /= searchQuery, localQuery /= searchQuery)
    /\ UNCHANGED <<favorites, featVars, localQuery>>

\* SearchBar.handleClear; the button shows when the input holds text.
Clear ==
    /\ Settled
    /\ localQuery /= ""
    /\ localQuery' = ""
    /\ timer' = TRUE
    /\ Commit(SetSearchQuery(Snap, ""))
    /\ Handled(IF searchQuery /= "" THEN "setSearchQuery" ELSE "setSearchQuerySame",
               NoResult, searchQuery /= "", searchQuery /= "")
    /\ UNCHANGED <<favorites, featVars>>

\* FiltersPanel.handleFilterChange.
ChangeFilter(p) ==
    /\ Settled
    /\ Commit(UpdateFilters(Snap, p))
    /\ Handled("updateFilters", NoResult, TRUE, TRUE)
    /\ UNCHANGED <<favorites, featVars, barVars>>

\* FiltersPanel.handleReset; the button shows when a filter is active.
ClearFilters ==
    /\ Settled
    /\ filters /= DefaultFilters
    /\ Commit(ResetFilters(Snap))
    /\ Handled("resetFilters", NoResult, TRUE, TRUE)
    /\ UNCHANGED <<favorites, featVars, barVars>>

\* RecipeCard.handleFavoriteClick on a card the home view shows.
FavoriteClick(id) ==
    /\ Settled
    /\ id \in VisibleCards
    /\ favorites' = ToggleFavorite(favorites, id)
    /\ Handled("toggleFavorite", NoResult, TRUE, FALSE)
    /\ UNCHANGED <<searchQuery, filters, currentPage, hasMore, isLoadingMore,
                   homeVars, featVars, barVars>>

\* The scroll observer reports the sentinel intersecting.
ObserverFires ==
    /\ Settled
    /\ currentPage < MaxPage
    /\ Commit(ObserverCallback(Snap))
    /\ Handled(IF ObserverCallback(Snap) /= Snap THEN "advance" ELSE "advanceDropped",
               NoResult, ObserverCallback(Snap) /= Snap, FALSE)
    /\ UNCHANGED <<favorites, featVars, barVars>>

\* A click on the Load More button, when it is shown.
ClickLoadMore ==
    /\ Settled
    /\ currentPage < MaxPage
    /\ LoadMoreButtonShown(Snap)
    /\ Commit(HandleLoadMore(Snap))
    /\ Handled(IF HandleLoadMore(Snap) /= Snap THEN "advance" ELSE "advanceDropped",
               NoResult, HandleLoadMore(Snap) /= Snap, FALSE)
    /\ UNCHANGED <<favorites, featVars, barVars>>

\* The response of list request i arrived: loadRecipes resumes after its await.
Resolve(i, payload) ==
    /\ Settled
    /\ i \in DOMAIN inflight
    /\ Commit(LoadRecipesResolved(Snap, i, ResultOf(payload, inflight[i].page)))
    /\ Handled(IF inflight[i].append THEN "resolveMore" ELSE "resolveFirst",
               ResultOf(payload, inflight[i].page),
               Cursor(LoadRecipesResolved(Snap, i, ResultOf(payload, inflight[i].page)))
                   /= Cursor(Snap),
               FALSE)
    /\ UNCHANGED <<favorites, featVars, barVars>>

\* List request i failed: loadRecipes resumes in its catch.
Reject(i, message) ==
    /\ Settled
    /\ i \in DOMAIN inflight
    /\ Commit(LoadRecipesRejected(Snap, i, message))
    /\ Handled(IF inflight[i].append THEN "rejectMore" ELSE "rejectFirst",
               NoResult,
               Cursor(LoadRecipesRejected(Snap, i, message)) /= Cursor(Snap),
               FALSE)
    /\ UNCHANGED <<favorites, featVars, barVars>>

\* fetchFeaturedRecipes returned; a failure leaves the list as it is.
FeaturedSettles(list) ==
    /\ Settled
    /\ featuredPending
    /\ featuredPending' = FALSE
    /\ featuredRecipes' = list
    /\ Handled("featured", NoResult, FALSE, FALSE)
    /\ UNCHANGED <<ctxVars, homeVars, barVars>>

Next ==
    \/ Mount
    \/ Render
    \/ \E q \in SearchTexts : Type(q)
    \/ TimerFire
    \/ Clear
    \/ \E p \in FilterPatches : ChangeFilter(p)
    \/ ClearFilters
    \/ \E id \in ServerIds : FavoriteClick(id)
    \/ ObserverFires
    \/ ClickLoadMore
    \/ \E i \in DOMAIN inflight, payload \in Payloads : Resolve(i, payload)
    \/ \E i \in DOMAIN inflight, m \in ErrorMessages : Reject(i, m)
    \/ \E list \in FeaturedLists : FeaturedSettles(list)

Spec == Init /\ [][Next]_vars

\* ------------------------------------------- the operations on their own
\* Home's two loading effects, the responses and the page-advance triggers,
\* each run as a step of its own: the page effect runs here without the reset
\* effect before it, so the load-more branch of loadRecipes is exercised.
MaxListLen == MaxPageLen

Called(name, result) ==
    /\ lastEvent' = name
    /\ lastResult' = result
    /\ UNCHANGED <<favorites, featVars, barVars, renderVars, renders, storeVars, fnVars, clockVars>>

ApiResetEffect ==
    /\ Commit(ResetEffect(Snap))
    /\ Called(IF loadingRef THEN "resetEffectDropped" ELSE "resetEffect", NoResult)

ApiPageEffect ==
    /\ currentPage > 1
    /\ Len(recipes) <= MaxListLen
    /\ Commit(PageEffect(Snap, currentPage))
    /\ Called(IF loadingRef THEN "pageEffectDropped" ELSE "pageEffect", NoResult)

ApiResolve(i, payload) ==
    /\ i \in DOMAIN inflight
    /\ Commit(LoadRecipesResolved(Snap, i, ResultOf(payload, inflight[i].page)))
    /\ Called(IF inflight[i].append THEN "resolveMore" ELSE "resolveFirst",
              ResultOf(payload, inflight[i].page))

ApiReject(i, message) ==
    /\ i \in DOMAIN inflight
    /\ Commit(LoadRecipesRejected(Snap, i, message))
    /\ Called(IF inflight[i].append THEN "rejectMore" ELSE "rejectFirst", NoResult)

ApiObserverFires ==
    /\ currentPage < MaxPage
    /\ Commit(ObserverCallback(Snap))
    /\ Called(IF ObserverCallback(Snap) /= Snap THEN "advance" ELSE "advanceDropped",
              NoResult)

ApiClickLoadMore ==
    /\ currentPage < MaxPage
    /\ LoadMoreButtonShown(Snap)
    /\ Commit(HandleLoadMore(Snap))
    /\ Called(IF HandleLoadMore(Snap) /= Snap THEN "advance" ELSE "advanceDropped",
              NoResult)

ApiNext ==
    \/ ApiResetEffect
    \/ ApiPageEffect
    \/ \E i \in DOMAIN inflight, payload \in Payloads : ApiResolve(i, payload)
    \/ \E i \in DOMAIN inflight, m \in ErrorMessages : ApiReject(i, m)
    \/ ApiObserverFires
    \/ ApiClickLoadMore

SpecApi == Init /\ [][ApiNext]_vars

\* --------------------------------------------- favorites persistence
\* The text stored under recipe_favorites is a sequence of tokens: the
\* brackets, the comma, and one token per string literal.
LBracket == <<"[">>
RBracket == <<"]">>
Comma == <<",">>
Quoted(id) == <<"str", id>>
IsQuoted(token) == Len(token) = 2 /\ token[1] = "str"
Number(digits) == <<"num", digits>>
IsNumber(token) == Len(token) = 2 /\ token[1] = "num"
LBrace == <<"{">>
RBrace == <<"}">>
NullToken == <<"null">>

Item(text) == [present |-> TRUE, text |-> text]

RECURSIVE Elements(_)
Elements(list) ==
    IF list = <<>> THEN <<>>
    ELSE IF Len(list) = 1 THEN <<Quoted(list[1])>>
    ELSE <<Quoted(list[1]), Comma>> \o Elements(Tail(list))

\* JSON.stringify of an array of strings.
JSONStringify(list) == <<LBracket>> \o Elements(list) \o <<RBracket>>

\* JSON.parse of a text: an array of strings, a string (value: its
\* characters, identifiers being one character long), a number (value: its
\* digits), the empty object, null, or a SyntaxError (ok = FALSE).
SyntaxError == [ok |-> FALSE, type |-> "undefined", value |-> <<>>]

JSONParse(text) ==
    LET n == Len(text)
        inner == SubSeq(text, 2, n - 1)
        m == Len(inner)
    IN  IF n = 1 /\ IsQuoted(text[1])
        THEN [ok |-> TRUE, type |-> "string", value |-> <<text[1][2]>>]
        ELSE IF n = 1 /\ IsNumber(text[1])
        THEN [ok |-> TRUE, type |-> "number", value |-> <<text[1][2]>>]
        ELSE IF text = <<NullToken>> THEN [ok |-> TRUE, type |-> "null", value |-> <<>>]
        ELSE IF text = <<LBrace, RBrace>>
        THEN [ok |-> TRUE, type |-> "object", value |-> <<>>]
        ELSE IF n < 2 \/ text[1] /= LBracket \/ text[n] /= RBracket THEN SyntaxError
        ELSE IF m = 0 THEN [ok |-> TRUE, type |-> "array", value |-> <<>>]
        ELSE IF /\ m % 2 = 1
                /\ \A i \in 1..m :
                     IF i % 2 = 1 THEN IsQuoted(inner[i]) ELSE inner[i] = Comma
        THEN [ok |-> TRUE, type |-> "array",
              value |-> [i \in 1..((m + 1) \div 2) |-> inner[2 * i - 1][2]]]
        ELSE SyntaxError

\* The load effect of AppProvider.  readOk: localStorage.getItem returned.
\* set: setFavorites was called with value, a value of kind type; raised: an
\* exception escaped.
NotLoaded == [set |-> FALSE, type |-> "array", value |-> <<>>, raised |-> FALSE]

\* The load effect without its try/catch.
LoadEffectUncaught(item, readOk) ==
    IF ~readOk THEN [NotLoaded EXCEPT !.raised = TRUE]
    ELSE IF ~item.present \/ item.text = <<>> THEN NotLoaded
    ELSE IF JSONParse(item.text).ok
    THEN [set |-> TRUE, type |-> JSONParse(item.text).type,
          value |-> JSONParse(item.text).value, raised |-> FALSE]
    ELSE [NotLoaded EXCEPT !.raised = TRUE]

LoadEffect(item, readOk) ==
    IF ~readOk THEN NotLoaded
    ELSE IF ~item.present \/ item.text = <<>> THEN NotLoaded
    ELSE IF JSONParse(item.text).ok
    THEN [set |-> TRUE, type |-> JSONParse(item.text).type,
          value |-> JSONParse(item.text).value, raised |-> FALSE]
    ELSE NotLoaded

\* The save effect that writes nothing for an empty list.
SaveEffectSkipsEmpty(favs, item, writeOk) ==
    [item |-> IF writeOk /\ favs /= <<>> THEN Item(JSONStringify(favs)) ELSE item,
     raised |-> FALSE]

\* The save effect of AppProvider.  writeOk: localStorage.setItem returned;
\* otherwise it threw and the catch clause logged the error.
SaveEffect(favs, item, writeOk) ==
    [item |-> IF writeOk THEN Item(JSONStringify(favs)) ELSE item,
     raised |-> FALSE]

\* What the storage can hold when the application starts.
Truncated == <<LBracket, Quoted("1")>>
InitialStored ==
    {NoItem, Item(<<>>), Item(Truncated)}
        \cup {Item(JSONStringify(list)) : list \in SeqsUpTo(ServerIds, MaxPageLen)}

\* JSON.stringify of the favorites state, whatever kind of value it holds.
Serialize(type, favs) ==
    IF type = "array" THEN JSONStringify(favs)
    ELSE IF type = "string" THEN <<Quoted(favs[1])>>
    ELSE IF type = "number" THEN <<Number(favs[1])>>
    ELSE IF type = "null" THEN <<NullToken>>
    ELSE <<LBrace, RBrace>>

SaveEffectOf(type, favs, item, writeOk) ==
    IF type = "array" THEN SaveEffect(favs, item, writeOk)
    ELSE [item |-> IF writeOk THEN Item(Serialize(type, favs)) ELSE item,
          raised |-> FALSE]

\* favorites.includes and favorites.filter exist on an array; on a string
\* only includes exists; on an object, a number or null neither does and the
\* call throws a TypeError.
Throws(type, favs, op, id) ==
    \/ type \in {"object", "number", "null"}
    \/ type = "string" /\ op = "remove"
    \/ type = "string" /\ op = "toggle" /\ Includes(favs, id)

FavInit ==
    /\ Fresh
    /\ FnIdle
    /\ ClockIdle
    /\ stored \in InitialStored
    /\ favDirty = FALSE
    /\ raised = FALSE
    /\ writeFailed = FALSE
    /\ favLast = NoOp
    /\ favType = "array"

FavHandled(name, op, id) ==
    /\ lastEvent' = name
    /\ favLast' = [op |-> op, id |-> id, before |-> favorites]
    /\ UNCHANGED <<searchQuery, filters, currentPage, hasMore, isLoadingMore,
                   homeVars, featVars, barVars, provDirty, queryDirty, renderedPage,
                   renders, lastResult, fnVars, clockVars>>

\* The first commit of AppProvider: the load effect, then the save effect
\* with the favorites of the first render.
FavMount(readOk, writeOk) ==
    /\ ~mounted
    /\ mounted' = TRUE
    /\ favorites' = IF LoadEffect(stored, readOk).set
                    THEN LoadEffect(stored, readOk).value ELSE favorites
    /\ favType' = IF LoadEffect(stored, readOk).set
                  THEN LoadEffect(stored, readOk).type ELSE favType
    /\ favDirty' = LoadEffect(stored, readOk).set
    /\ raised' = (LoadEffect(stored, readOk).raised
                    \/ SaveEffectOf(favType, favorites, stored, writeOk).raised)
    /\ stored' = SaveEffectOf(favType, favorites, stored, writeOk).item
    /\ writeFailed' = ~writeOk
    /\ FavHandled("mount", IF ~readOk THEN "readFailed"
                           ELSE IF LoadEffect(stored, readOk).set THEN "loaded"
                           ELSE IF stored.present /\ stored.text /= <<>> THEN "parseFailed"
                           ELSE "nothingStored", "")

\* A commit after favorites changed: the save effect.
FavRender(writeOk) ==
    /\ mounted
    /\ favDirty
    /\ favDirty' = FALSE
    /\ stored' = SaveEffectOf(favType, favorites, stored, writeOk).item
    /\ raised' = (raised \/ SaveEffectOf(favType, favorites, stored, writeOk).raised)
    /\ writeFailed' = ~writeOk
    /\ UNCHANGED <<favorites, favType, mounted, favLast, lastEvent>>
    /\ UNCHANGED <<searchQuery, filters, currentPage, hasMore, isLoadingMore,
                   homeVars, featVars, barVars, provDirty, queryDirty, renderedPage,
                   renders, lastResult, fnVars, clockVars>>

\* A favorites operation is called between commits: it throws, or it
\* returns; result is the list it passes to setFavorites when called is true.
FavOperation(name, op, id, result, called) ==
    /\ mounted
    /\ ~favDirty
    /\ IF Throws(favType, favorites, op, id)
       THEN /\ raised' = TRUE
            /\ FavHandled(name, "threw", id)
            /\ UNCHANGED <<favorites, favType, favDirty>>
       ELSE /\ favorites' = result
            /\ favType' = IF called THEN "array" ELSE favType
            /\ favDirty' = called
            /\ FavHandled(name, op, id)
            /\ UNCHANGED raised
    /\ UNCHANGED <<stored, writeFailed, mounted>>

FavAdd(id) ==
    FavOperation("addFavorite", "add", id,
                 AddFavorite(favorites, id), ~Includes(favorites, id))

FavRemove(id) ==
    FavOperation("removeFavorite", "remove", id, RemoveFavorite(favorites, id), TRUE)

FavToggle(id) ==
    FavOperation("toggleFavorite", "toggle", id, ToggleFavorite(favorites, id), TRUE)

FavNext ==
    \/ \E readOk \in BOOLEAN, writeOk \in BOOLEAN : FavMount(readOk, writeOk)
    \/ \E writeOk \in BOOLEAN : FavRender(writeOk)
    \/ \E id \in ServerIds : FavAdd(id)
    \/ \E id \in ServerIds : FavRemove(id)
    \/ \E id \in ServerIds : FavToggle(id)

SpecFav == FavInit /\ [][FavNext]_vars

\* The same container over every kind of stored text: also well-formed JSON
\* that is not an array.
InitialStoredAny ==
    InitialStored
        \cup {Item(<<LBrace, RBrace>>), Item(<<Number("5")>>), Item(<<Quoted("1")>>),
              Item(<<NullToken>>)}

FavAnyInit ==
    /\ Fresh
    /\ FnIdle
    /\ ClockIdle
    /\ stored \in InitialStoredAny
    /\ favDirty = FALSE
    /\ raised = FALSE
    /\ writeFailed = FALSE
    /\ favLast = NoOp
    /\ favType = "array"

SpecFavAny == FavAnyInit /\ [][FavNext]_vars

\* ------------------------------------------- fetchRecipes, called alone
\* Every combination of the fields an envelope can carry.  Page numbers
\* start at 1; a total can be 0; a list field can be the empty list.
NoField == [k \in {} |-> TRUE]
Totals == {0, 5}
EnvelopeParts ==
    [recipes : {NoField} \cup {[recipes |-> p] : p \in Pages},
     data : {NoField, [data |-> <<>>], [data |-> <<"9">>]},
     total : {NoField} \cup {[total |-> t] : t \in Totals},
     hasMore : {NoField} \cup {[hasMore |-> h] : h \in BOOLEAN},
     page : {NoField} \cup {[page |-> n] : n \in 1..MaxPage}]
AllEnvelopes ==
    {[kind |-> "envelope"] @@ e.recipes @@ e.data @@ e.total @@ e.hasMore @@ e.page :
        e \in EnvelopeParts}
AllPayloads == Arrays \cup AllEnvelopes

FetchInit ==
    /\ Fresh
    /\ StoreIdle
    /\ ClockIdle
    /\ input \in {[fn |-> "fetchRecipes", payload |-> p, page |-> n] :
                    p \in AllPayloads, n \in 1..MaxPage}
    /\ output = NoOutput

\* fetchRecipes(filters, searchQuery, page, pageSize) returns for a response
\* of status 2xx with the body input.payload.
FetchCall ==
    /\ input.fn = "fetchRecipes"
    /\ ~output.done
    /\ output' = [done |-> TRUE, value |-> FetchRecipes(input.payload, input.page)]
    /\ UNCHANGED <<ctxVars, homeVars, featVars, barVars, renderVars, histVars,
                   storeVars, input, clockVars>>

FetchNext == FetchCall

SpecFetch == FetchInit /\ [][FetchNext]_vars

\* ------------------------------------- the favorites view, its filter
\* Text is a sequence of characters, so that toLowerCase, includes and join
\* are computed on it.
LowerCase ==
    [c \in {"B", "C", "F", "I", "P", "T", "V", "A", "H"} |->
        CASE c = "B" -> "b" [] c = "C" -> "c" [] c = "F" -> "f" [] c = "I" -> "i"
          [] c = "P" -> "p" [] c = "T" -> "t" [] c = "V" -> "v" [] c = "A" -> "a"
          [] c = "H" -> "h"]

ToLowerCase(text) ==
    [i \in DOMAIN text |->
        IF text[i] \in DOMAIN LowerCase THEN LowerCase[text[i]] ELSE text[i]]

\* String.prototype.includes
StrIncludes(text, part) ==
    \E i \in 0..(Len(text) - Len(part)) : SubSeq(text, i + 1, i + Len(part)) = part

\* Array.prototype.join(' ')
RECURSIVE Join(_)
Join(texts) ==
    IF texts = <<>> THEN <<>>
    ELSE IF Len(texts) = 1 THEN texts[1]
    ELSE texts[1] \o <<" ">> \o Join(Tail(texts))

\* parseInt(text, 10) of a text of decimal digits
Digit == [c \in {"0", "3", "4", "5"} |->
            CASE c = "0" -> 0 [] c = "3" -> 3 [] c = "4" -> 4 [] c = "5" -> 5]

RECURSIVE ParseInt(_)
ParseInt(text) ==
    IF text = <<>> THEN 0
    ELSE 10 * ParseInt(SubSeq(text, 1, Len(text) - 1)) + Digit[text[Len(text)]]

\* Recipes as the server or the fallback samples give them; the third, as
\* the third sample of Home, has no diet.
Pizza ==
    [id |-> "1", name |-> <<"P", "i", "z", "z", "a">>,
     cuisine |-> <<"I", "t", "a", "l", "i", "a", "n">>,
     diet |-> <<"V", "e", "g", "a", "n">>, cookTime |-> 30,
     ingredients |-> << <<"B", "a", "s", "i", "l">>, <<"C", "h", "e", "e", "s", "e">> >>]
Curry ==
    [id |-> "2", name |-> <<"C", "u", "r", "r", "y">>,
     cuisine |-> <<"T", "h", "a", "i">>,
     diet |-> <<"V", "e", "g", "a", "n">>, cookTime |-> 45]
Cake ==
    [id |-> "3", name |-> <<"C", "a", "k", "e">>,
     cuisine |-> <<"F", "r", "e", "n", "c", "h">>, cookTime |-> 25]
Catalog == <<Pizza, Curry, Cake>>
RecipeIds == {"1", "2", "3"}

RECURSIVE Sublists(_)
Sublists(list) ==
    IF list = <<>> THEN {<<>>}
    ELSE Sublists(Tail(list)) \cup {<<Head(list)>> \o l : l \in Sublists(Tail(list))}

ViewSearchTexts ==
    {<<>>, <<"c", "u">>, <<"T", "H", "A", "I">>, <<"l", " ", "c", "h">>, <<"x">>}
ViewFilters ==
    [cuisine : {<<>>, <<"t", "h", "a", "i">>, <<"f", "r", "e", "n", "c", "h">>},
     diet : {<<>>, <<"v", "e", "g", "a", "n">>},
     maxTime : {<<>>, <<"3", "0">>}]

\* The first filter predicate of the search: name, cuisine or ingredients.
MatchesSearch(recipe, query) ==
    \/ StrIncludes(ToLowerCase(recipe.name), query)
    \/ StrIncludes(ToLowerCase(recipe.cuisine), query)
    \/ /\ Has(recipe, "ingredients")
       /\ StrIncludes(ToLowerCase(Join(recipe.ingredients)), query)

TypeError == [ok |-> FALSE, recipes |-> <<>>]

\* The useMemo callback of Favorites: the list shown, or the TypeError of
\* reading toLowerCase of an undefined diet.
FavoriteRecipes(allRecipes, favs, query, f) ==
    LET byFavorite == SelectSeq(allRecipes, LAMBDA r : Includes(favs, r.id))
        bySearch ==
            IF query /= <<>>
            THEN SelectSeq(byFavorite, LAMBDA r : MatchesSearch(r, ToLowerCase(query)))
            ELSE byFavorite
        byCuisine ==
            IF f.cuisine /= <<>>
            THEN SelectSeq(bySearch,
                           LAMBDA r : ToLowerCase(r.cuisine) = ToLowerCase(f.cuisine))
            ELSE bySearch
        dietUndefined ==
            f.diet /= <<>> /\ \E i \in DOMAIN byCuisine : ~Has(byCuisine[i], "diet")
        byDiet ==
            IF f.diet /= <<>>
            THEN SelectSeq(byCuisine, LAMBDA r : ToLowerCase(r.diet) = ToLowerCase(f.diet))
            ELSE byCuisine
        byTime ==
            IF f.maxTime /= <<>>
            THEN SelectSeq(byDiet, LAMBDA r : r.cookTime <= ParseInt(f.maxTime))
            ELSE byDiet
    IN  IF dietUndefined THEN TypeError ELSE [ok |-> TRUE, recipes |-> byTime]

ViewInit ==
    /\ Fresh
    /\ StoreIdle
    /\ ClockIdle
    /\ input \in {[fn |-> "favoriteRecipes", allRecipes |-> a, favorites |-> v,
                   searchQuery |-> q, filters |-> f] :
                    a \in Sublists(Catalog), v \in SeqsUpTo(RecipeIds, MaxPageLen),
                    q \in ViewSearchTexts, f \in ViewFilters}
    /\ output = NoOutput

\* Favorites renders: the useMemo callback runs.
ViewCall ==
    /\ input.fn = "favoriteRecipes"
    /\ ~output.done
    /\ output' = [done |-> TRUE,
                  value |-> FavoriteRecipes(input.allRecipes, input.favorites,
                                            input.searchQuery, input.filters)]
    /\ UNCHANGED <<ctxVars, homeVars, featVars, barVars, renderVars, histVars,
                   storeVars, input, clockVars>>

ViewNext == ViewCall

SpecView == ViewInit /\ [][ViewNext]_vars

\* ------------------------------- updateFilters and resetFilters, called alone
\* A patch names any subset of the three filter fields.
AllFilterPatches ==
    {c @@ d @@ t :
        c \in {NoField} \cup {[cuisine |-> x] : x \in Cuisines},
        d \in {NoField} \cup {[diet |-> x] : x \in Diets},
        t \in {NoField} \cup {[maxTime |-> x] : x \in MaxTimes}}

\* A mounted application at rest, with any filters, search text and favorites.
FiltersInit ==
    /\ searchQuery \in SearchTexts
    /\ filters \in Filters
    /\ favorites \in SeqsUpTo(ServerIds, MaxPageLen)
    /\ currentPage = 1
    /\ hasMore \in BOOLEAN
    /\ isLoadingMore = FALSE
    /\ recipes = <<>>
    /\ loading = FALSE
    /\ error = Null
    /\ loadingRef = FALSE
    /\ featuredRecipes = <<>>
    /\ featuredPending = FALSE
    /\ inflight = <<>>
    /\ localQuery = searchQuery
    /\ timer = FALSE
    /\ mounted = TRUE
    /\ provDirty = FALSE
    /\ queryDirty = FALSE
    /\ renderedPage = 1
    /\ lastEvent = "none"
    /\ renders = 0
    /\ lastResult = NoResult
    /\ StoreIdle
    /\ ClockIdle
    /\ input \in {[fn |-> "updateFilters", patch |-> p] : p \in AllFilterPatches}
                    \cup {[fn |-> "resetFilters"]}
    /\ output = NoOutput

FiltersCalled ==
    /\ output' = [done |-> TRUE]
    /\ UNCHANGED <<favorites, featVars, barVars, renderVars, histVars, storeVars, input, clockVars>>

CallUpdateFilters ==
    /\ input.fn = "updateFilters"
    /\ ~output.done
    /\ Commit(UpdateFilters(Snap, input.patch))
    /\ FiltersCalled

CallResetFilters ==
    /\ input.fn = "resetFilters"
    /\ ~output.done
    /\ Commit(ResetFilters(Snap))
    /\ FiltersCalled

FiltersNext == CallUpdateFilters \/ CallResetFilters

SpecFilters == FiltersInit /\ [][FiltersNext]_vars

\* ------------------------------------------------ SearchBar on a clock
\* The debounce of SearchBar with time made explicit: a clock tick is
\* DebounceMs / TicksPerWindow milliseconds, a pending setTimeout call carries
\* the text its callback closed over and the ticks it has waited.
DebounceMs == 500
TicksPerWindow == 5
TickMs == DebounceMs \div TicksPerWindow
BarTexts == {"", "c", "cu", "cur", "curry"}

Timeout(text) == [text |-> text, elapsed |-> 0]
Due(t) == t.elapsed * TickMs >= DebounceMs

\* The debounce effect without its cleanup.
DebounceEffectNoCleanup(ts, text) == Append(ts, Timeout(text))

\* The debounce effect after localQuery changed: the cleanup of the previous
\* run clears its timeout, the new run sets one for the new text.
DebounceEffect(ts, text) == <<Timeout(text)>>

BarHandled(name) ==
    /\ lastEvent' = name
    /\ UNCHANGED <<filters, favorites, currentPage, hasMore, isLoadingMore, homeVars,
                   featVars, timer, provDirty, queryDirty, renderedPage, renders,
                   lastResult, storeVars, fnVars>>

\* SearchBar mounts: the debounce effect runs for the initial text.
BarMount ==
    /\ ~mounted
    /\ mounted' = TRUE
    /\ timeouts' = DebounceEffect(timeouts, localQuery)
    /\ sinceKey' = 0
    /\ BarHandled("mount")
    /\ UNCHANGED <<searchQuery, localQuery>>

\* SearchBar.handleChange, and the commit with the debounce effect.
BarType(q) ==
    /\ mounted
    /\ q /= localQuery
    /\ localQuery' = q
    /\ timeouts' = DebounceEffect(timeouts, q)
    /\ sinceKey' = 0
    /\ BarHandled("type")
    /\ UNCHANGED <<searchQuery, mounted>>

\* SearchBar.handleClear, and the commit with the debounce effect.
BarClear ==
    /\ mounted
    /\ localQuery /= ""
    /\ localQuery' = ""
    /\ searchQuery' = ""
    /\ timeouts' = DebounceEffect(timeouts, "")
    /\ sinceKey' = 0
    /\ BarHandled("clear")
    /\ UNCHANGED mounted

\* Time passes, as long as no pending timeout is due.
BarTick ==
    /\ mounted
    /\ \A i \in DOMAIN timeouts : ~Due(timeouts[i])
    /\ sinceKey * TickMs < DebounceMs
    /\ timeouts' = [i \in DOMAIN timeouts |-> [timeouts[i] EXCEPT !.elapsed = @ + 1]]
    /\ sinceKey' = sinceKey + 1
    /\ BarHandled("tick")
    /\ UNCHANGED <<searchQuery, localQuery, mounted>>

\* A timeout is due: its callback calls setSearchQuery with its text.
BarFire ==
    /\ \E i \in DOMAIN timeouts :
         /\ Due(timeouts[i])
         /\ searchQuery' = timeouts[i].text
         /\ timeouts' = RemoveAt(timeouts, i)
    /\ BarHandled("fire")
    /\ UNCHANGED <<localQuery, mounted, sinceKey>>

BarNext ==
    \/ BarMount
    \/ \E q \in BarTexts : BarType(q)
    \/ BarClear
    \/ BarTick
    \/ BarFire

SpecBar == Init /\ [][BarNext]_vars

\* ------------------------------------------------------------ claims
QueryMutations ==
    {"updateFilters", "resetFilters", "setSearchQuery", "setSearchQuerySame"}
QueryChanges == {"updateFilters", "resetFilters", "setSearchQuery"}
Advances == {"advance", "advanceDropped"}

C2_AdvanceNoOp ==
    [][(lastEvent' \in Advances /\ renders' = 0 /\ (~hasMore \/ inflight /= <<>>))
        => (currentPage' = currentPage /\ recipes' = recipes /\ inflight' = inflight)]_vars

C2_Witness ==
    /\ lastEvent = "advanceDropped"
    /\ renders = 0
    /\ inflight /= <<>>

\* C3: at most one list request is in flight, and a call of loadRecipes made
\* while the in-flight guard is set issues no request and changes no state
\* (nothing is left behind that a later step could resume).
C3_AtMostOneRequest ==
    /\ Len(inflight) <= 1
    /\ inflight /= <<>> => loadingRef
    /\ loadingRef =>
        \A page \in 1..MaxPage, append \in BOOLEAN :
            LoadRecipes(Snap, page, append) = Snap

\* A query change committed while the request of the old query is in flight:
\* the reset effect's loadRecipes(1, false) was dropped by the guard.
C3_Witness ==
    /\ Settled
    /\ lastEvent = "setSearchQuery"
    /\ renders >= 1
    /\ Len(inflight) = 1
    /\ inflight[1].search /= searchQuery

\* C4: every change of search text or filter selection, in whatever state,
\* clears the recipe list, resets the cursor and has a page-1 request issued
\* with the new search text and filters (loading-first-page for the new query).
C4_QueryChangeReloads ==
    (Settled /\ lastEvent \in QueryChanges) =>
        /\ recipes = <<>>
        /\ Cursor(Snap) = InitialCursor
        /\ loading
        /\ \E i \in DOMAIN inflight :
                inflight[i] = Request(1, FALSE, searchQuery, filters)

\* C5: when a first-page request fails the machine settles in ready with
\* exactly the 3 sample recipes, an error message, hasMore = FALSE and
\* loading = FALSE.
C5_FirstPageFailureSettles ==
    (Settled /\ lastEvent = "rejectFirst") =>
        /\ recipes = MockRecipes
        /\ error /= Null
        /\ error /= ""
        /\ ~hasMore
        /\ ~loading

\* C6: whenever the home view is not loading, has an error set and holds a
\* non-empty recipe list, the grid renders the recipe cards as well as the
\* error.
C6_ErrorShownWithCards ==
    (mounted /\ ~loading /\ error /= Null /\ Len(recipes) > 0) =>
        /\ RecipeGrid(recipes, loading, error).cards = recipes
        /\ RecipeGrid(recipes, loading, error).error = error

C8_AdvanceRequestsNextPage ==
    (Settled /\ lastEvent = "advance") =>
        /\ currentPage > 1
        /\ \E i \in DOMAIN inflight :
                inflight[i] = Request(currentPage, TRUE, searchQuery, filters)

ToSet(list) == {list[i] : i \in DOMAIN list}
NoDuplicates(list) == \A i, j \in DOMAIN list : list[i] = list[j] => i = j
FavSettled == mounted /\ ~favDirty

\* C11: adding an identifier that is already a favorite, and removing one that
\* is not, leave the favorites list as it is (same identifiers, same order);
\* adding twice, and removing twice, the same identifier equals doing it once.
C11_AddRemoveIdempotent ==
    \A id \in ServerIds :
        /\ Includes(favorites, id) => AddFavorite(favorites, id) = favorites
        /\ ~Includes(favorites, id) => RemoveFavorite(favorites, id) = favorites
        /\ AddFavorite(AddFavorite(favorites, id), id) = AddFavorite(favorites, id)
        /\ RemoveFavorite(RemoveFavorite(favorites, id), id) = RemoveFavorite(favorites, id)

\* addFavorite was called with an identifier the list of two already held.
C11_Witness ==
    /\ favLast.op = "add"
    /\ Includes(favLast.before, favLast.id)
    /\ Len(favLast.before) = 2
    /\ favorites = favLast.before

\* C12: toggling the same identifier twice yields the same set of favorites as
\* toggling it once.
C12_ToggleIdempotent ==
    \A id \in ServerIds :
        ToSet(ToggleFavorite(ToggleFavorite(favorites, id), id))
            = ToSet(ToggleFavorite(favorites, id))

\* C12, amended: toggling the same identifier twice yields the set of
\* favorites there was before the first toggle, which differs from the set
\* after one toggle; the identifier, if it was a favorite, is then last.
C12_ToggleTwiceRestores ==
    \A id \in ServerIds :
        LET once == ToggleFavorite(favorites, id)
            twice == ToggleFavorite(once, id)
        IN  /\ ToSet(twice) = ToSet(favorites)
            /\ ToSet(twice) /= ToSet(once)
            /\ Includes(favorites, id) => twice = Append(RemoveFavorite(favorites, id), id)
            /\ ~Includes(favorites, id) => twice = favorites

\* toggleFavorite has put back an identifier an earlier toggle had removed.
C12_Witness ==
    /\ favLast.op = "toggle"
    /\ ~Includes(favLast.before, favLast.id)
    /\ favLast.before /= <<>>
    /\ stored = Item(JSONStringify(Append(favLast.before, favLast.id)))
    /\ FavSettled

Mutations == {"add", "remove", "toggle"}

\* C13: after add/remove/toggle operations, once the last one has been
\* committed and the save effect has run without a write failure, the text
\* under recipe_favorites is the JSON serialization of the favorites list:
\* parsing it gives the same identifiers in the same order.
C13_StoreMirrorsFavorites ==
    (FavSettled /\ favLast.op \in Mutations /\ ~writeFailed) =>
        /\ stored = Item(JSONStringify(favorites))
        /\ JSONParse(stored.text).ok
        /\ JSONParse(stored.text).value = favorites

\* The last favorite was removed and the saved text is the empty array.
C13_Witness ==
    /\ FavSettled
    /\ favLast.op \in {"remove", "toggle"}
    /\ ~writeFailed
    /\ favLast.before /= <<>>
    /\ favorites = <<>>
    /\ stored = Item(<<LBracket, RBracket>>)

LoadFailures == {"readFailed", "parseFailed"}

\* What the last favorites operation makes of the list it was called on.
Applied(last) ==
    IF last.op = "add" THEN AddFavorite(last.before, last.id)
    ELSE IF last.op = "remove" THEN RemoveFavorite(last.before, last.id)
    ELSE ToggleFavorite(last.before, last.id)

\* C14: no storage error reaches the caller.  When reading or parsing the
\* stored favorites fails at creation, the container has an empty favorites
\* list and nothing was raised; when the write after an add/remove/toggle
\* fails, the favorites list is the mutated one and nothing was raised.
C14_StorageErrorsSwallowed ==
    /\ ~raised
    /\ favLast.op \in LoadFailures => favorites = <<>>
    /\ (favLast.op \in Mutations /\ FavSettled /\ writeFailed)
          => favorites = Applied(favLast)

\* The stored text could not be parsed at creation; later a favorite was
\* added and the write of the new list failed.
C14_Witness ==
    /\ stored = Item(Truncated)
    /\ favLast.op = "add"
    /\ favLast.before = <<>>
    /\ favorites = <<favLast.id>>
    /\ FavSettled
    /\ writeFailed

\* C15: an add, remove or toggle operation applied to a favorites list without
\* a repeated identifier (the empty list, or a duplicate-free list loaded from
\* storage, or what earlier operations made of them) gives a list without a
\* repeated identifier.
C15_NoDuplicateIntroduced ==
    [][(favLast'.op \in Mutations /\ NoDuplicates(favorites))
          => NoDuplicates(favorites')]_vars

\* An identifier was added to a duplicate-free list loaded from storage.
C15_Witness ==
    /\ favLast.op = "add"
    /\ Len(favLast.before) = 1
    /\ Len(favorites) = 2
    /\ NoDuplicates(favorites)
    /\ stored = Item(JSONStringify(favLast.before))

ResultFields == {"recipes", "total", "hasMore", "page"}

\* C16: the result of fetchRecipes for a successful payload has one shape.  A
\* bare list of length N gives recipes = the list, total = N, hasMore = FALSE,
\* page = 1, whatever page was requested.  An envelope gives recipes = its
\* recipes field (else its data field, else the empty list), total = its total
\* (default 0), hasMore = its hasMore (default FALSE), page = its page
\* (default the requested page); with all four fields it is passed through.
C16_FetchRecipesNormalizes ==
    output.done =>
        LET p == input.payload
            v == output.value
        IN  /\ DOMAIN v = ResultFields
            /\ p.kind = "array" =>
                 v = [recipes |-> p.items, total |-> Len(p.items),
                      hasMore |-> FALSE, page |-> 1]
            /\ p.kind = "envelope" =>
                 /\ v.recipes = IF "recipes" \in DOMAIN p THEN p.recipes
                                ELSE IF "data" \in DOMAIN p THEN p.data ELSE <<>>
                 /\ v.total = IF "total" \in DOMAIN p THEN p.total ELSE 0
                 /\ v.hasMore = IF "hasMore" \in DOMAIN p THEN p.hasMore ELSE FALSE
                 /\ v.page = IF "page" \in DOMAIN p THEN p.page ELSE input.page
                 /\ ResultFields \subseteq DOMAIN p =>
                      \A k \in ResultFields : v[k] = p[k]

\* A bare list of two recipes was returned for a request of page 2.
C16_Witness ==
    /\ output.done
    /\ input.payload.kind = "array"
    /\ Len(input.payload.items) = 2
    /\ input.page = 2
    /\ output.value.page = 1
    /\ output.value.total = 2

\* The recipes the favorites view is to show, stated per recipe.
Shown(r, favs, query, f) ==
    /\ Includes(favs, r.id)
    /\ \/ query = <<>>
       \/ StrIncludes(ToLowerCase(r.name), ToLowerCase(query))
       \/ StrIncludes(ToLowerCase(r.cuisine), ToLowerCase(query))
       \/ "ingredients" \in DOMAIN r
            /\ StrIncludes(ToLowerCase(Join(r.ingredients)), ToLowerCase(query))
    /\ f.cuisine = <<>> \/ ToLowerCase(r.cuisine) = ToLowerCase(f.cuisine)
    /\ f.diet = <<>> \/ ("diet" \in DOMAIN r /\ ToLowerCase(r.diet) = ToLowerCase(f.diet))
    /\ f.maxTime = <<>> \/ r.cookTime <= ParseInt(f.maxTime)

\* C17: for every bulk recipe list, favorites list, search text and filter
\* selection the favorites view computes, without failing, exactly the
\* recipes of the bulk list whose id is a favorite and that match the search
\* text (name, cuisine or joined ingredients, ignoring case), the cuisine and
\* diet filters (ignoring case) and the maxTime filter.
C17_FavoritesViewFilter ==
    output.done =>
        /\ output.value.ok
        /\ ToSet(output.value.recipes) =
             {r \in ToSet(input.allRecipes) :
                 Shown(r, input.favorites, input.searchQuery, input.filters)}

\* The same statement where the computation does not fail.
C17_WhenNoTypeError ==
    (output.done /\ output.value.ok) =>
        ToSet(output.value.recipes) =
             {r \in ToSet(input.allRecipes) :
                 Shown(r, input.favorites, input.searchQuery, input.filters)}

Failures == {"rejectFirst", "rejectMore"}
Completions == {"resolveFirst", "resolveMore", "rejectFirst", "rejectMore"}

\* C18: no request is retried.  As long as the failure of a list request is
\* the last event (no search-text change, filter change or page-advance
\* trigger since), no list request is in flight: the handling of the failure
\* has issued none.
C18_NoRetryAfterFailure == lastEvent \in Failures => inflight = <<>>

Overlaid(after, before, p) ==
    /\ DOMAIN after = DOMAIN before
    /\ \A k \in DOMAIN before : after[k] = IF k \in DOMAIN p THEN p[k] ELSE before[k]

\* C20: updateFilters(p) gives every filter field named in p the value p has
\* for it and leaves every other filter field, the search text and the
\* favorites as they were; resetFilters sets the three filter fields to the
\* empty value and leaves the search text and the favorites as they were.
C20_FiltersOverlay ==
    [][/\ input.fn = "updateFilters" => Overlaid(filters', filters, input.patch)
       /\ input.fn = "resetFilters" => \A k \in DOMAIN filters : filters'[k] = ""
       /\ searchQuery' = searchQuery
       /\ favorites' = favorites]_vars

\* updateFilters has set the diet and the maximum time while a cuisine and a
\* search text were set and a recipe was a favorite.
C20_Witness ==
    /\ output.done
    /\ input.fn = "updateFilters"
    /\ DOMAIN input.patch = {"diet", "maxTime"}
    /\ filters = [cuisine |-> "thai", diet |-> "vegan", maxTime |-> "45"]
    /\ searchQuery = "curry"
    /\ favorites /= <<>>

\* C21: the search input is debounced.  A keystroke leaves the shared search
\* text as it is and replaces the pending update by one for the new text; the
\* shared search text changes only when a timeout fires a full window
\* (DebounceMs) after the last change of the input, and then it takes the text
\* last typed and no update is left pending, or when the clear control is
\* used, which sets the local and the shared text to empty at once.
C21_SearchDebounced ==
    [][/\ lastEvent' = "type" =>
            /\ searchQuery' = searchQuery
            /\ timeouts' = <<Timeout(localQuery')>>
       /\ lastEvent' = "clear" => (localQuery' = "" /\ searchQuery' = "")
       /\ (searchQuery' /= searchQuery /\ lastEvent' /= "clear") =>
            /\ lastEvent' = "fire"
            /\ sinceKey * TickMs >= DebounceMs
            /\ searchQuery' = localQuery
            /\ timeouts' = <<>>]_vars

\* After a text was shared, another was typed and the window has passed: the
\* shared text is the one typed last.
C21_Witness ==
    /\ lastEvent = "fire"
    /\ searchQuery = "cur"
    /\ localQuery = "cur"
    /\ timeouts = <<>>
    /\ sinceKey * TickMs >= DebounceMs

Ready == inflight = <<>> /\ ~loading /\ ~isLoadingMore

\* C22: a favorites mutation made while the home view is ready (the click
\* and the commit that follows it) leaves the recipe list, the pagination
\* cursor, loading and error as they were and issues no list request.
C22_FavoriteMutationFrame ==
    [][(Ready /\ lastEvent' = "toggleFavorite") =>
          /\ recipes' = recipes
          /\ currentPage' = currentPage
          /\ hasMore' = hasMore
          /\ isLoadingMore' = isLoadingMore
          /\ loading' = loading
          /\ error' = error
          /\ inflight' = inflight]_vars

Resolutions == {"resolveFirst", "resolveMore"}

\* C23: when a response has been applied and has left the home view at rest
\* (no list request in flight, no commit pending) with recipes in the list,
\* the request it answers was issued with the current search text and filter
\* selection.
C23_ListBelongsToQuery ==
    [][(lastEvent' \in Resolutions /\ renders' = 0 /\ inflight /= <<>>
          /\ inflight' = <<>> /\ ~provDirty' /\ recipes' /= <<>>) =>
          /\ inflight[1].search = searchQuery'
          /\ inflight[1].filters = filters']_vars

\* C24: no page is skipped.  The commit that follows an advance of
\* currentPage to n keeps currentPage at n and issues the request for page n.
C24_AdvanceFollowedByRequest ==
    [][(lastEvent = "advance" /\ renders = 0 /\ renders' = 1) =>
          /\ currentPage' = currentPage
          /\ \E i \in DOMAIN inflight' :
                inflight'[i].page = currentPage /\ inflight'[i].append]_vars

\* C25: the machine quiesces.  As long as the successful completion of a
\* first-page request is the last event (no user input, no scroll trigger
\* since), no list request is in flight and the view is not loading.
C25_QuiescentAfterSuccess ==
    lastEvent = "resolveFirst" => (inflight = <<>> /\ ~loading /\ ~loadingRef)

\* C26: after the first render a list request is in flight exactly when
\* loading or isLoadingMore is true.
C26_IndicatorsAgreeWithGuard ==
    mounted => ((inflight /= <<>>) <=> (loading \/ isLoadingMore))

\* A first-page request has failed and its retry is in flight: the failure
\* had switched the indicator off, the retry has switched it on again.
C26_Witness ==
    /\ lastEvent = "rejectFirst"
    /\ renders >= 1
    /\ inflight /= <<>>
    /\ loading
    /\ ~isLoadingMore

\* C27: stored favorites survive start-up.  From the creation of the
\* container with a stored list until the first add/remove/toggle, the text
\* under recipe_favorites is a list holding every identifier that was stored,
\* and once start-up has settled the favorites in memory are that list.
C27_StoredFavoritesSurvive ==
    (favLast.op = "loaded" /\ favType = "array") =>
        /\ stored.present
        /\ JSONParse(stored.text).ok
        /\ ToSet(favorites) \subseteq ToSet(JSONParse(stored.text).value)
        /\ FavSettled => JSONParse(stored.text).value = favorites

\* C28: whatever text the storage key holds at creation, once it is loaded
\* the favorites state is a list of identifiers and no favorites operation
\* fails.
C28_FavoritesAlwaysList == mounted => (favType = "array" /\ ~raised)

====
